---- MODULE Spec2Model ----
(***************************************************************************)
(* Booking and cancellation core of the flight booking simulator           *)
(* (src/main.py, src/seed_all.py, src/pricing_engine.py,                   *)
(* src/models_all.py).                                                     *)
(*                                                                         *)
(* The database is the SQLite file of models_all.py:131-135.  Every        *)
(* request runs in its own SQLAlchemy session (get_db).  A SELECT reads    *)
(* the committed tables; the first INSERT/UPDATE of a session takes the    *)
(* database write lock, its writes stay private until COMMIT, and          *)
(* ROLLBACK discards them.  The ORM writes the attribute value computed    *)
(* in Python (UPDATE flights SET seats_available = <value>).               *)
(*                                                                         *)
(* Money is in hundredths of a rupee, factors in tenths.                   *)
(***************************************************************************)
EXTENDS Integers, Sequences, FiniteSets, TLC

\* ------------------------------------------------------------------ bounds
NumSessions == 2
\* requests the clients send in one run
MaxRequests == 3

\* ------------------------------------------------------- program constants
SeatsTotal == 180
SeedSeatsMin == 10
DemoSeats == 2

Sessions == 1..NumSessions
\* the write lock is the set of sessions holding it: empty or one session
NoSession == {}
FlightIds == {1}
\* flight_id of a request: a seeded flight or an id no flight has
RequestFlightIds == FlightIds \cup {99}
\* seeded seats_available is random.randint(10, 180)
SeedAvail == {SeedSeatsMin, SeatsTotal}
\* seeded base_price is round(random.uniform(2000, 15000), 2)
SeedBasePrices == {500000}
\* request inputs
SeatChoices == {0, 4, 6}
PNRs == {1, 2}
DemoRef == 0
\* random.uniform(0.8, 1.2), in tenths
DemandFactors == {10}
\* hours from now to the departure of the flight, at the time of a request
HoursChoices == {10}

VARIABLES
  seed_pc,             \* position of seed_all.py after the user is committed
  flights,             \* committed table flights: id -> row
  bookings,            \* committed table bookings: sequence, id = index
  booking_passengers,  \* committed table booking_passengers: sequence of booking_id
  payments,            \* committed table payments: sequence of rows
  lock,                \* the sessions holding the database write lock: at most one
  rq,                  \* per session: the request in progress, or Idle
  last,                \* the response most recently returned to a client
  requests,            \* number of requests received so far
  seeded,              \* history: seats_available of each flight as seeded
  journal,             \* history: per flight, the last committed write transaction
  quote                \* the last call of a pricing function: arguments and outcome

vars == <<seed_pc, flights, bookings, booking_passengers, payments, lock, rq,
          last, requests, seeded, journal, quote>>
db == <<flights, bookings, booking_passengers, payments>>

\* ----------------------------------------------------------------- helpers
Repeat(x, n) == [i \in 1..n |-> x]

\* q + r/d rounded to the nearest integer, ties to even (Python's round)
RoundHalfEven(q, r, d) ==
  IF 2 * r < d THEN q
  ELSE IF 2 * r > d THEN q + 1
  ELSE IF q % 2 = 0 THEN q ELSE q + 1

\* (q + r/d) * k as a quotient and a remainder over d; keeps the products
\* of the price formula within 32 bits without changing their value
ScaledMul(p, k, d) == [q |-> p.q * k + (p.r * k) \div d, r |-> (p.r * k) % d]

\* mutant: the 24 hour and 72 hour limits are inclusive
time_factor_inclusive(hours) ==
  IF hours < 0 THEN 10
  ELSE IF hours <= 24 THEN 14
  ELSE IF hours <= 72 THEN 12
  ELSE 10

\* pricing_engine.py:16-23, in tenths
time_factor(hours) ==
  IF hours < 0 THEN 10
  ELSE IF hours < 24 THEN 14
  ELSE IF hours < 72 THEN 12
  ELSE 10

\* pricing_engine.py:7-29: final_price in hundredths as q + r/d, exactly;
\* base_price in hundredths, demand_factor in tenths, seats_total # 0:
\* base_price * (1 + 0.5 * seats_used / seats_total) * time * demand
final_price(base_price, seats_total, seats_available, hours, demand_factor) ==
  LET seats_used == seats_total - seats_available
      sign == IF seats_total < 0 THEN -1 ELSE 1
      d == 2 * sign * seats_total * 100
      x == sign * base_price * (2 * seats_total + seats_used)
      p == ScaledMul(ScaledMul([q |-> x \div d, r |-> x % d], time_factor(hours), d),
                     demand_factor, d)
  IN [q |-> p.q, r |-> p.r, d |-> d]

\* pricing_engine.calculate_dynamic_price: round(final_price, 2), in hundredths
calculate_dynamic_price(base_price, seats_total, seats_available, hours, demand_factor) ==
  LET p == final_price(base_price, seats_total, seats_available, hours, demand_factor)
  IN RoundHalfEven(p.q, p.r, p.d)

\* pricing_engine.py:31: what round() can return.  final_price is a float:
\* when the exact product lies halfway between two hundredths the float lies
\* on either side of it, and round() returns either neighbour.
calculate_dynamic_price_outcomes(base_price, seats_total, seats_available, hours, demand_factor) ==
  LET p == final_price(base_price, seats_total, seats_available, hours, demand_factor)
  IN IF 2 * p.r = p.d THEN {p.q, p.q + 1} ELSE {RoundHalfEven(p.q, p.r, p.d)}

Idle ==
  [pc |-> "idle", op |-> "none", flight_id |-> 0, seats |-> 0, npass |-> 0,
   pnr |-> 0, seen |-> 0, total_price |-> 0, bid |-> 0]

\* a response: the request it answers, the HTTP status and the detail or
\* message; row_status is what the bookings table held for a cancelled PNR
Response(op, fid, seats, npass, pnr, status, detail, row_status) ==
  [op |-> op, flight_id |-> fid, seats |-> seats, npass |-> npass, pnr |-> pnr,
   status |-> status, detail |-> detail, row_status |-> row_status]

NoResponse == Response("none", 0, 0, 0, 0, 0, "", "")

NoTxn == [op |-> "none", bid |-> 0, before |-> 0, seen |-> 0]

\* a call of a pricing function: its arguments, and what it did: kind is
\* "price" (value returned) or the name of the exception raised
Quote(fn, base_price, seats_total, seats_available, hours, demand_factor, kind, value) ==
  [fn |-> fn, base_price |-> base_price, seats_total |-> seats_total,
   seats_available |-> seats_available, hours |-> hours,
   demand_factor |-> demand_factor, kind |-> kind, value |-> value]

NoQuote == Quote("none", 0, 0, 0, 0, 0, "none", 0)

PassengerCount(b) ==
  Cardinality({i \in DOMAIN booking_passengers : booking_passengers[i] = b})

\* ------------------------------------------------------------------- seed
Init ==
  /\ seed_pc = "booking"
  /\ flights \in [FlightIds -> [seats_total : {SeatsTotal},
                                seats_available : SeedAvail,
                                base_price : SeedBasePrices]]
  /\ bookings = <<>>
  /\ booking_passengers = <<>>
  /\ payments = <<>>
  /\ lock = NoSession
  /\ rq = [s \in Sessions |-> Idle]
  /\ last = NoResponse
  /\ requests = 0
  /\ seeded = [f \in FlightIds |-> flights[f].seats_available]
  /\ journal = [f \in FlightIds |-> NoTxn]
  /\ quote = NoQuote

\* seed_all.py:80-95: the demo booking is committed on its own
SeedBooking ==
  /\ seed_pc = "booking"
  /\ bookings' = Append(bookings,
       [flight_id |-> 1, booking_reference |-> DemoRef, seats_booked |-> DemoSeats,
        total_price |-> flights[1].base_price * DemoSeats, status |-> "CONFIRMED"])
  /\ seed_pc' = "children"
  /\ UNCHANGED <<flights, booking_passengers, payments, lock, rq, last, requests, seeded, journal, quote>>

\* seed_all.py:97-117: passengers and payment follow in a second commit
SeedChildren ==
  /\ seed_pc = "children"
  /\ booking_passengers' = booking_passengers \o Repeat(Len(bookings), 2)
  /\ payments' = Append(payments,
       [booking_id |-> Len(bookings), amount |-> bookings[Len(bookings)].total_price])
  /\ seed_pc' = "done"
  /\ UNCHANGED <<flights, bookings, lock, rq, last, requests, seeded, journal, quote>>

\* --------------------------------------------------------- create_booking
\* mutant: the availability check of main.py:160 is missing
ValidateNoAvailabilityCheck(fid, seats, npass) ==
  IF fid \notin DOMAIN flights THEN "Flight not found"
  ELSE IF seats <= 0 THEN "Seats must be greater than 0"
  ELSE IF seats # npass THEN "Seats count must match number of passengers"
  ELSE "ok"

\* mutant: the passenger count check of main.py:154 is missing
ValidateNoPassengerCheck(fid, seats, npass) ==
  IF fid \notin DOMAIN flights THEN "Flight not found"
  ELSE IF seats <= 0 THEN "Seats must be greater than 0"
  ELSE IF flights[fid].seats_available < seats THEN "Not enough seats available"
  ELSE "ok"

\* main.py:147-161: the detail of the HTTPException raised, or "ok"
Validate(fid, seats, npass) ==
  IF fid \notin DOMAIN flights THEN "Flight not found"
  ELSE IF seats <= 0 THEN "Seats must be greater than 0"
  ELSE IF seats # npass THEN "Seats count must match number of passengers"
  ELSE IF flights[fid].seats_available < seats THEN "Not enough seats available"
  ELSE "ok"

\* main.py:180: flight.seats_available -= booking_req.seats
Reserve(seen, seats) == seen - seats

\* the committed bookings row bearing a reference, 0 when there is none
RowByReference(pnr) ==
  IF \E b \in DOMAIN bookings : bookings[b].booking_reference = pnr
  THEN CHOOSE b \in DOMAIN bookings : bookings[b].booking_reference = pnr
  ELSE 0

\* main.py:147-176: SELECT the flight, validate, price, draw the PNR
CreateBegin(s, fid, seats, npass, pnr, hours, demand) ==
  /\ seed_pc = "done"
  /\ rq[s].pc = "idle"
  /\ requests < MaxRequests
  /\ requests' = requests + 1
  /\ LET v == Validate(fid, seats, npass)
     IN IF v # "ok"
        THEN /\ last' = Response("create", fid, seats, npass, 0,
                                 IF v = "Flight not found" THEN 404 ELSE 400, v, "")
             /\ rq' = rq
        ELSE /\ rq' = [rq EXCEPT ![s] =
               [Idle EXCEPT !.pc = "priced", !.op = "create", !.flight_id = fid,
                            !.seats = seats, !.npass = npass, !.pnr = pnr,
                            !.seen = flights[fid].seats_available,
                            !.total_price =
                               calculate_dynamic_price(flights[fid].base_price,
                                 flights[fid].seats_total, flights[fid].seats_available,
                                 hours, demand) * seats]]
             /\ last' = last
  /\ UNCHANGED <<seed_pc, flights, bookings, booking_passengers, payments, lock,
                 seeded, journal, quote>>

\* mutant: the seat decrement is committed on its own, ahead of the booking
CreateFlushAutocommit(s) ==
  /\ rq[s].pc = "priced"
  /\ lock = NoSession
  /\ RowByReference(rq[s].pnr) = 0
  /\ lock' = {s}
  /\ rq' = [rq EXCEPT ![s].pc = "flushed", ![s].bid = Len(bookings) + 1]
  /\ flights' = [flights EXCEPT ![rq[s].flight_id].seats_available =
                   rq[s].seen - rq[s].seats]
  /\ UNCHANGED <<seed_pc, bookings, booking_passengers, payments,
                 last, requests, seeded, journal, quote>>

\* main.py:180-192: decrement, add the booking, flush: UPDATE flights and
\* INSERT bookings take the write lock and stay uncommitted
CreateFlush(s) ==
  /\ rq[s].pc = "priced"
  /\ lock = NoSession
  /\ RowByReference(rq[s].pnr) = 0
  /\ lock' = {s}
  /\ rq' = [rq EXCEPT ![s].pc = "flushed", ![s].bid = Len(bookings) + 1]
  /\ UNCHANGED <<seed_pc, flights, bookings, booking_passengers, payments,
                 last, requests, seeded, journal, quote>>

\* main.py:217-219: db.rollback() discards the session's writes, then 500
Rollback(s, detail) ==
  /\ rq' = [rq EXCEPT ![s] = Idle]
  /\ last' = Response("create", rq[s].flight_id, rq[s].seats, rq[s].npass,
                      rq[s].pnr, 500, detail, "")
  /\ lock' = lock \ {s}
  /\ UNCHANGED <<seed_pc, flights, bookings, booking_passengers, payments,
                 requests, seeded, journal, quote>>

\* main.py:192: the flush times out on another session's write lock
CreateBusy(s) ==
  /\ rq[s].pc = "priced"
  /\ lock \notin {NoSession, {s}}
  /\ Rollback(s, "database is locked")

\* main.py:192: the INSERT violates UNIQUE(booking_reference), models_all.py:77
CreateDuplicate(s) ==
  /\ rq[s].pc = "priced"
  /\ lock = NoSession
  /\ RowByReference(rq[s].pnr) # 0
  /\ Rollback(s, "UNIQUE constraint failed")

\* main.py:194-215: an INSERT of a child row or the COMMIT itself raises
CreatePersistFail(s) ==
  /\ rq[s].pc = "flushed"
  /\ Rollback(s, "persistence failed")

\* main.py:194-228: INSERT passengers and payment, COMMIT, respond
CreateCommit(s) ==
  /\ rq[s].pc = "flushed"
  /\ lock = {s}
  /\ LET r == rq[s]
         f == r.flight_id
     IN /\ flights' = [flights EXCEPT ![f].seats_available = Reserve(r.seen, r.seats)]
        /\ bookings' = Append(bookings,
              [flight_id |-> f, booking_reference |-> r.pnr, seats_booked |-> r.seats,
               total_price |-> r.total_price, status |-> "CONFIRMED"])
        /\ booking_passengers' = booking_passengers \o Repeat(r.bid, r.npass)
        /\ payments' = Append(payments, [booking_id |-> r.bid, amount |-> r.total_price])
        /\ journal' = [journal EXCEPT ![f] =
              [op |-> "create", bid |-> r.bid,
               before |-> flights[f].seats_available, seen |-> r.seen]]
        /\ rq' = [rq EXCEPT ![s] = Idle]
        /\ last' = Response("create", f, r.seats, r.npass, r.pnr, 200,
                            "Booking confirmed", "")
  /\ lock' = NoSession
  /\ UNCHANGED <<seed_pc, requests, seeded, quote>>

\* --------------------------------------------------------- cancel_booking
\* mutant: the lookup does not filter on the status
LookupAnyStatus(pnr) ==
  IF \E b \in DOMAIN bookings : bookings[b].booking_reference = pnr
  THEN CHOOSE b \in DOMAIN bookings : bookings[b].booking_reference = pnr
  ELSE 0

\* main.py:235-242: the row with this reference and status CONFIRMED, or 0
LookupConfirmed(pnr) ==
  IF \E b \in DOMAIN bookings :
       bookings[b].booking_reference = pnr /\ bookings[b].status = "CONFIRMED"
  THEN CHOOSE b \in DOMAIN bookings :
       bookings[b].booking_reference = pnr /\ bookings[b].status = "CONFIRMED"
  ELSE 0

\* mutant: one seat is released whatever the booking held
ReleaseOneSeat(seen, seats_booked) == seen + 1

\* main.py:248: flight.seats_available += booking.seats_booked
Release(seen, seats_booked) == seen + seats_booked

\* mutant: the status is toggled instead of set
ToggleStatus(status) == IF status = "CONFIRMED" THEN "CANCELLED" ELSE "CONFIRMED"

\* main.py:249: booking.status = "CANCELLED"
CancelledStatus(status) == "CANCELLED"

\* main.py:234-245: SELECT the CONFIRMED booking by reference, 404 if none.
\* row_status records what the bookings table held for the reference.
CancelLookup(s, pnr) ==
  /\ seed_pc = "done"
  /\ rq[s].pc = "idle"
  /\ requests < MaxRequests
  /\ requests' = requests + 1
  /\ LET b == LookupConfirmed(pnr)
         any == RowByReference(pnr)
     IN IF b = 0
        THEN /\ last' = Response("cancel", 0, 0, 0, pnr, 404, "Booking not found",
                                 IF any = 0 THEN "NONE" ELSE bookings[any].status)
             /\ rq' = rq
        ELSE /\ rq' = [rq EXCEPT ![s] =
               [Idle EXCEPT !.pc = "found", !.op = "cancel", !.pnr = pnr, !.bid = b,
                            !.flight_id = bookings[b].flight_id,
                            !.seats = bookings[b].seats_booked]]
             /\ last' = last
  /\ UNCHANGED <<seed_pc, flights, bookings, booking_passengers, payments, lock,
                 seeded, journal, quote>>

\* main.py:247: SELECT the flight of the booking
CancelReadFlight(s) ==
  /\ rq[s].pc = "found"
  /\ rq' = [rq EXCEPT ![s].pc = "loaded",
                      ![s].seen = flights[rq[s].flight_id].seats_available]
  /\ UNCHANGED <<seed_pc, flights, bookings, booking_passengers, payments, lock,
                 last, requests, seeded, journal, quote>>

\* main.py:248-256: UPDATE flights and bookings, COMMIT, respond
CancelCommit(s) ==
  /\ rq[s].pc = "loaded"
  /\ lock = NoSession
  /\ LET r == rq[s]
         f == r.flight_id
     IN /\ flights' = [flights EXCEPT ![f].seats_available = Release(r.seen, r.seats)]
        /\ bookings' = [bookings EXCEPT ![r.bid].status = CancelledStatus(@)]
        /\ journal' = [journal EXCEPT ![f] =
              [op |-> "cancel", bid |-> r.bid,
               before |-> flights[f].seats_available, seen |-> r.seen]]
        /\ rq' = [rq EXCEPT ![s] = Idle]
        /\ last' = Response("cancel", f, r.seats, 0, r.pnr, 200,
                            "Booking cancelled successfully", "CONFIRMED")
  /\ UNCHANGED <<seed_pc, booking_passengers, payments, lock, requests, seeded, quote>>

\* main.py:251: the commit times out on another session's write lock; the
\* exception is not caught, get_db closes the session (models_all.py:146-151)
CancelBusy(s) ==
  /\ rq[s].pc = "loaded"
  /\ lock \notin {NoSession, {s}}
  /\ rq' = [rq EXCEPT ![s] = Idle]
  /\ last' = Response("cancel", rq[s].flight_id, rq[s].seats, 0, rq[s].pnr, 500,
                      "database is locked", "CONFIRMED")
  /\ UNCHANGED <<seed_pc, flights, bookings, booking_passengers, payments, lock,
                 requests, seeded, journal, quote>>

\* ------------------------------------------------------------ specification
Next ==
  \/ SeedBooking
  \/ SeedChildren
  \/ \E s \in Sessions, fid \in RequestFlightIds, seats \in SeatChoices,
        npass \in SeatChoices, pnr \in PNRs, hours \in HoursChoices,
        demand \in DemandFactors :
        CreateBegin(s, fid, seats, npass, pnr, hours, demand)
  \/ \E s \in Sessions : CreateFlush(s)
  \/ \E s \in Sessions : CreateBusy(s)
  \/ \E s \in Sessions : CreateDuplicate(s)
  \/ \E s \in Sessions : CreatePersistFail(s)
  \/ \E s \in Sessions : CreateCommit(s)
  \/ \E s \in Sessions, pnr \in PNRs \cup {DemoRef} : CancelLookup(s, pnr)
  \/ \E s \in Sessions : CancelReadFlight(s)
  \/ \E s \in Sessions : CancelCommit(s)
  \/ \E s \in Sessions : CancelBusy(s)

Spec == Init /\ [][Next]_vars

\* --------------------------------------------------------- pricing calls
\* arguments of a pricing call: prices in hundredths, demand in tenths
BasePriceInputs == {-10000, 0, 1, 200001, 500000}
SeatsTotalInputs == {-10, 0, 180}
SeatsAvailableInputs == {0, 90, 180}
HoursInputs == {-5, 0, 10, 24, 72}
DemandInputs == {8, 10, 12}

\* pricing.py:34-38: time_multiplier as a number of sixtieths:
\* 2.0, or 1 + (48 - min(hours, 48)) / 48 * 0.8 = (108 - min(hours, 48)) / 60
time_multiplier(hours) ==
  IF hours <= 0 THEN 120
  ELSE 108 - (IF hours < 48 THEN hours ELSE 48)

\* pricing.py:19-45: adj_price before rounding, in hundredths, as q + r/d;
\* seats_total <= 0 is replaced by 1
adj_price(base_price, seats_total, seats_available, hours, demand_factor) ==
  LET total == IF seats_total <= 0 THEN 1 ELSE seats_total
      d == total * 60 * 10
      x == base_price * (2 * total - seats_available)
      p == ScaledMul(ScaledMul([q |-> x \div d, r |-> x % d], time_multiplier(hours), d),
                     demand_factor, d)
  IN [q |-> p.q, r |-> p.r, d |-> d]

\* pricing.py:48-53: the rounding unit in hundredths: 10, 50 or 100 rupees
rounding_unit(p) ==
  IF p.q < 100000 THEN 1000 ELSE IF p.q < 500000 THEN 5000 ELSE 10000

\* pricing.py:48-61: what compute_dynamic_price can return, in thousandths:
\* max(round(adj_price / unit) * unit, base_price * 0.9); at an exact tie
\* round() of the float returns either neighbour
compute_dynamic_price_outcomes(base_price, seats_total, seats_available, hours, demand_factor) ==
  LET p == adj_price(base_price, seats_total, seats_available, hours, demand_factor)
      u == rounding_unit(p)
      n == p.q \div u
      rem == p.q % u
      ns == IF 2 * rem < u THEN {n}
            ELSE IF 2 * rem > u \/ p.r > 0 THEN {n + 1}
            ELSE {n, n + 1}
      floor == base_price * 9
  IN {IF k * u * 10 > floor THEN k * u * 10 ELSE floor : k \in ns}

\* main.py:100-106, 129-135, 163-169: a call of calculate_dynamic_price;
\* pricing_engine.py:8 divides by seats_total
QuoteEngine(base_price, seats_total, seats_available, hours, demand_factor) ==
  /\ \/ /\ seats_total = 0
        /\ quote' = Quote("calculate_dynamic_price", base_price, seats_total,
                          seats_available, hours, demand_factor, "ZeroDivisionError", 0)
     \/ /\ seats_total # 0
        /\ \E v \in calculate_dynamic_price_outcomes(base_price, seats_total,
                      seats_available, hours, demand_factor) :
             quote' = Quote("calculate_dynamic_price", base_price, seats_total,
                            seats_available, hours, demand_factor, "price", v)
  /\ UNCHANGED <<seed_pc, flights, bookings, booking_passengers, payments, lock, rq,
                 last, requests, seeded, journal>>

\* pricing.py:6-61: a call of compute_dynamic_price
QuoteLegacy(base_price, seats_total, seats_available, hours, demand_factor) ==
  /\ \E v \in compute_dynamic_price_outcomes(base_price, seats_total,
                seats_available, hours, demand_factor) :
       quote' = Quote("compute_dynamic_price", base_price, seats_total,
                      seats_available, hours, demand_factor, "price", v)
  /\ UNCHANGED <<seed_pc, flights, bookings, booking_passengers, payments, lock, rq,
                 last, requests, seeded, journal>>

PriceNext ==
  \/ \E b \in BasePriceInputs, t \in SeatsTotalInputs, a \in SeatsAvailableInputs,
        h \in HoursInputs, d \in DemandInputs : QuoteEngine(b, t, a, h, d)
  \/ \E b \in BasePriceInputs, t \in SeatsTotalInputs, a \in SeatsAvailableInputs,
        h \in HoursInputs, d \in DemandInputs : QuoteLegacy(b, t, a, h, d)

\* the pricing functions applied to arguments drawn from the input sets
PriceSpec == Init /\ [][PriceNext]_vars

\* ---------------------------------------------------------------- steps
References == PNRs \cup {DemoRef}

StatusOf(pnr) ==
  IF RowByReference(pnr) = 0 THEN "NONE" ELSE bookings[RowByReference(pnr)].status

\* this step receives a create_booking request with these inputs
BeganCreate(fid, seats, npass) ==
  /\ requests' = requests + 1
  /\ \/ /\ rq' = rq
        /\ last'.op = "create" /\ last'.flight_id = fid
        /\ last'.seats = seats /\ last'.npass = npass
     \/ \E s \in Sessions :
          /\ rq[s].pc = "idle" /\ rq'[s].pc = "priced"
          /\ rq'[s].flight_id = fid /\ rq'[s].seats = seats /\ rq'[s].npass = npass

\* this step receives a cancel_booking request for this PNR
BeganCancel(pnr) ==
  /\ requests' = requests + 1
  /\ \/ rq' = rq /\ last'.op = "cancel" /\ last'.pnr = pnr
     \/ \E s \in Sessions :
          rq[s].pc = "idle" /\ rq'[s].pc = "found" /\ rq'[s].pnr = pnr

\* this step is a step of the create_booking request of session s
CreateStep(s) == rq[s].op = "create" /\ rq'[s] # rq[s]

\* this step ends the create_booking request of session s with its 200 response
CreateSucceeded(s) ==
  /\ rq[s].pc = "flushed" /\ rq'[s] = Idle
  /\ last'.op = "create" /\ last'.status = 200 /\ last'.pnr = rq[s].pnr

\* this step is the commit of the cancel_booking request of session s
CancelCommitted(s) ==
  /\ rq[s].op = "cancel" /\ rq[s].pc = "loaded" /\ rq'[s] = Idle
  /\ last'.op = "cancel" /\ last'.status = 200

\* seats held by the CONFIRMED bookings that requests made on flight f
RECURSIVE SeatsConfirmed(_, _)
SeatsConfirmed(f, n) ==
  IF n = 0 THEN 0
  ELSE SeatsConfirmed(f, n - 1) +
       (IF /\ bookings[n].flight_id = f
           /\ bookings[n].booking_reference # DemoRef
           /\ bookings[n].status = "CONFIRMED"
        THEN bookings[n].seats_booked ELSE 0)

\* ---------------------------------------------------------------- claims

\* C1: a create_booking request that fails after the seat decrement (at the
\* flush, at a child INSERT or at the COMMIT) never changes the committed
\* tables: every step of a create_booking request other than its successful
\* commit leaves flights, bookings, booking_passengers and payments as they
\* were, and the failure releases the write lock.
C1_FailedBookingLeavesNoTrace ==
  [][\A s \in Sessions :
       CreateStep(s) /\ ~CreateSucceeded(s) =>
         /\ db' = db
         /\ (rq'[s] = Idle => last'.status = 500 /\ s \notin lock')]_vars

\* C1 witness: a request failed after its flush; the flight has its seeded
\* seats and the only booking is the seeded one
C1_Witness ==
  /\ last.op = "create" /\ last.status = 500 /\ last.detail = "persistence failed"
  /\ requests = 1
  /\ flights[last.flight_id].seats_available = seeded[last.flight_id]
  /\ Len(bookings) = 1 /\ Len(payments) = 1 /\ lock = NoSession

\* C2: as long as nothing was cancelled on a flight, the seats of the
\* bookings that requests made on it never exceed the seats it had before
\* the requests began.
C2_NoOverbooking ==
  \A f \in FlightIds :
    (\A b \in DOMAIN bookings :
       bookings[b].flight_id = f => bookings[b].status = "CONFIRMED")
    => SeatsConfirmed(f, Len(bookings)) <= seeded[f]

\* C3: seats_available of every flight is never negative.
C3_SeatsNeverNegative ==
  \A f \in FlightIds : flights[f].seats_available >= 0

\* C3 witness: two bookings have taken the last seats of a flight
C3_Witness ==
  \E f \in FlightIds :
    /\ flights[f].seats_available = 0
    /\ SeatsConfirmed(f, Len(bookings)) = seeded[f]
    /\ last.op = "create" /\ last.status = 200

\* C4: seats_available of every flight never exceeds its seats_total.
C4_SeatsWithinTotal ==
  \A f \in FlightIds : flights[f].seats_available <= flights[f].seats_total

\* C5: a cancel_booking request for a PNR whose booking is CANCELLED when the
\* request is received changes no table, starts no work and is not answered
\* with the success response.
C5_CancelCancelledIsNoOp ==
  [][\A p \in References :
       BeganCancel(p) /\ StatusOf(p) = "CANCELLED" =>
         /\ db' = db
         /\ rq' = rq
         /\ last'.status # 200]_vars

\* C5 witness: a cancel request met a CANCELLED booking
C5_Witness ==
  /\ last.op = "cancel" /\ last.row_status = "CANCELLED"
  /\ StatusOf(last.pnr) = "CANCELLED"

\* C6: a cancel_booking request that meets an existing, cancelled booking is
\* not answered with the outcome of an unknown PNR (404 Booking not found).
C6_CancelledIsNotNotFound ==
  (last.op = "cancel" /\ last.row_status = "CANCELLED") =>
    ~(last.status = 404 /\ last.detail = "Booking not found")

\* C7: when the last transaction committed on a flight is a create_booking
\* that ran against an unchanged flight row, the commit of the cancellation
\* of that booking sets seats_available to the value before the booking.
C7_BookThenCancelRestoresSeats ==
  [][\A s \in Sessions :
       LET f == rq[s].flight_id IN
       (/\ CancelCommitted(s)
        /\ journal[f].op = "create" /\ journal[f].bid = rq[s].bid
        /\ journal[f].before = journal[f].seen)
       => flights'[f].seats_available = journal[f].before]_vars

\* C7 witness: one booking, then its cancellation; the seats are back
C7_Witness ==
  /\ requests = 2
  /\ last.op = "cancel" /\ last.status = 200 /\ last.pnr \in PNRs
  /\ journal[last.flight_id].op = "cancel"
  /\ flights[last.flight_id].seats_available = seeded[last.flight_id]

\* C8: a create_booking request with an unknown flight, seats <= 0, seats
\* different from the number of passengers or seats above the flight's
\* seats_available is rejected with 400 or 404 in the step that receives it,
\* changes no table and starts no work.
C8_RejectedBookingHasNoEffect ==
  [][\A fid \in RequestFlightIds, seats \in SeatChoices, npass \in SeatChoices :
       (/\ BeganCreate(fid, seats, npass)
        /\ \/ fid \notin FlightIds
           \/ seats <= 0
           \/ seats # npass
           \/ seats > flights[fid].seats_available)
       => /\ rq' = rq
          /\ db' = db
          /\ lock' = lock
          /\ last'.status \in {400, 404}]_vars

\* C8 witness: a request was refused on a flight with no seat left
C8_Witness ==
  /\ last.op = "create" /\ last.detail = "Not enough seats available"
  /\ last.flight_id \in FlightIds
  /\ flights[last.flight_id].seats_available = 0
  /\ Len(bookings) = 3

\* C9: every committed CONFIRMED booking has exactly seats_booked passengers.
C9_PassengersMatchSeats ==
  \A b \in DOMAIN bookings :
    bookings[b].status = "CONFIRMED" => PassengerCount(b) = bookings[b].seats_booked

\* C10: a committed booking keeps its flight_id, seats_booked and
\* total_price; its status changes only from CONFIRMED to CANCELLED.
C10_BookingImmutableButCancel ==
  [][\A b \in DOMAIN bookings :
       /\ b \in DOMAIN bookings'
       /\ bookings'[b].flight_id = bookings[b].flight_id
       /\ bookings'[b].seats_booked = bookings[b].seats_booked
       /\ bookings'[b].total_price = bookings[b].total_price
       /\ \/ bookings'[b].status = bookings[b].status
          \/ bookings[b].status = "CONFIRMED" /\ bookings'[b].status = "CANCELLED"]_vars

\* C10 witness: a booking was made after another was cancelled, and the
\* cancelled one is still CANCELLED
C10_Witness ==
  /\ \E b \in DOMAIN bookings : bookings[b].status = "CANCELLED"
  /\ last.op = "create" /\ last.status = 200
  /\ journal[last.flight_id].op = "create"

\* C11: a pricing call with seats_total <= 0 or base_price <= 0 raises; it
\* never returns a price.
C11_InvalidInputSignalled ==
  (quote.fn # "none" /\ (quote.seats_total <= 0 \/ quote.base_price <= 0))
  => quote.kind # "price"

\* the demo booking of the seed script has been cancelled
DemoCancelled ==
  \E b \in DOMAIN bookings :
    bookings[b].booking_reference = DemoRef /\ bookings[b].status = "CANCELLED"

\* C12: as long as the seeded booking is not cancelled, seats_available of a
\* flight is its seeded value minus the seats of the CONFIRMED bookings that
\* requests made on it.
C12_NoLostUpdate ==
  \A f \in FlightIds :
    ~DemoCancelled =>
      flights[f].seats_available = seeded[f] - SeatsConfirmed(f, Len(bookings))

\* C13: the booking a create_booking request commits has total_price =
\* seats_booked times a unit price computed from the seats_available the
\* flight has in the committed table when the commit happens, and its
\* Payment has that amount.
C13_PriceMatchesSeatsAtCommit ==
  [][\A s \in Sessions :
       CreateSucceeded(s) =>
         LET f == rq[s].flight_id
             b == bookings'[Len(bookings')]
         IN /\ \E h \in HoursChoices, d \in DemandFactors :
                 b.total_price = b.seats_booked *
                   calculate_dynamic_price(flights[f].base_price, flights[f].seats_total,
                                           flights[f].seats_available, h, d)
            /\ payments'[Len(payments')] =
                 [booking_id |-> Len(bookings'), amount |-> b.total_price]]_vars

\* the time factor as the claim C14 states it, in tenths
C14_TimeFactor(h) ==
  IF h < 0 THEN 10
  ELSE IF 0 <= h /\ h < 24 THEN 14
  ELSE IF 24 <= h /\ h < 72 THEN 12
  ELSE 10

\* base_price * (1 + 0.5 * (total - available) / total) * t * demand in
\* hundredths, as whole + part/den, multiplying the factors first
C14_Exact(base_price, seats_total, seats_available, h, demand_factor) ==
  LET den == 200 * seats_total
      a == base_price * C14_TimeFactor(h) * demand_factor
      w == 3 * seats_total - seats_available
      n == (a % den) * w
  IN [whole |-> (a \div den) * w + n \div den, part |-> n % den, den |-> den]

\* C14: for base_price > 0, seats_total > 0 and 0 <= seats_available <=
\* seats_total, calculate_dynamic_price returns the product of the claim
\* rounded to the nearest hundredth (either neighbour at an exact tie), the
\* result is > 0, and 5000 / 180 / 90 / 10 h / 1.0 gives 8750.00.
C14_PriceFormula ==
  (/\ quote.fn = "calculate_dynamic_price"
   /\ quote.base_price > 0 /\ quote.seats_total > 0
   /\ 0 <= quote.seats_available /\ quote.seats_available <= quote.seats_total)
  => LET e == C14_Exact(quote.base_price, quote.seats_total, quote.seats_available,
                        quote.hours, quote.demand_factor)
     IN /\ quote.kind = "price"
        /\ 2 * e.part < e.den => quote.value = e.whole
        /\ 2 * e.part > e.den => quote.value = e.whole + 1
        /\ quote.value \in {e.whole, e.whole + 1}
        /\ quote.value > 0
        /\ (/\ quote.base_price = 500000 /\ quote.seats_total = 180
            /\ quote.seats_available = 90 /\ quote.hours = 10
            /\ quote.demand_factor = 10) => quote.value = 875000

\* C14 witness: the call of the scenario returned 8750.00
C14_Witness ==
  quote = Quote("calculate_dynamic_price", 500000, 180, 90, 10, 10, "price", 875000)

====
